---------------------------- MODULE Spec2Model ----------------------------
(***************************************************************************)
(* Model of pythonlightforcetravel.py: the LightForceSimulator class (the   *)
(* three stored parameters, set_parameters, the two calculate_* methods)   *)
(* and the console loop run_simulation.                                    *)
(*                                                                         *)
(* Every number of the program is a Python float, an IEEE-754 binary64.    *)
(* The model computes with binary64 values exactly as the interpreter      *)
(* does: a finite value is sign * m * 2^e with an integer significand m of *)
(* at most 53 bits, kept as a little-endian sequence of limbs because a    *)
(* significand does not fit a machine integer of the model checker; every  *)
(* +, *, / is the exact result rounded to nearest-even, with overflow to   *)
(* inf, gradual underflow, inf and nan.                                    *)
(***************************************************************************)
EXTENDS Integers, Sequences, FiniteSets, TLC

(***************************************************************************)
(* Natural numbers of any size: little-endian limbs, no leading zero limb. *)
(***************************************************************************)
LimbBits == 15
Base == 2^LimbBits

Max(a, b) == IF a >= b THEN a ELSE b
Min(a, b) == IF a <= b THEN a ELSE b

RECURSIVE BNorm(_)
BNorm(a) ==
    IF a = <<>> THEN <<>>
    ELSE IF a[Len(a)] = 0 THEN BNorm(SubSeq(a, 1, Len(a) - 1))
    ELSE a

RECURSIVE BAddC(_, _, _)
BAddC(a, b, c) ==
    IF a = <<>> /\ b = <<>> THEN (IF c = 0 THEN <<>> ELSE <<c>>)
    ELSE LET x == IF a = <<>> THEN 0 ELSE Head(a)
             y == IF b = <<>> THEN 0 ELSE Head(b)
             s == x + y + c
         IN  <<s % Base>> \o BAddC(IF a = <<>> THEN <<>> ELSE Tail(a),
                                   IF b = <<>> THEN <<>> ELSE Tail(b),
                                   s \div Base)

BAdd(a, b) == BAddC(a, b, 0)

\* a - b for a >= b
RECURSIVE BSubC(_, _, _)
BSubC(a, b, c) ==
    IF a = <<>> THEN <<>>
    ELSE LET y == IF b = <<>> THEN 0 ELSE Head(b)
             d == Head(a) - y - c
         IN  <<d % Base>> \o BSubC(Tail(a),
                                   IF b = <<>> THEN <<>> ELSE Tail(b),
                                   IF d < 0 THEN 1 ELSE 0)

BSub(a, b) == BNorm(BSubC(a, b, 0))

\* -1, 0, 1 as a < b, a = b, a > b
RECURSIVE BCmpTop(_, _, _)
BCmpTop(a, b, i) ==
    IF i = 0 THEN 0
    ELSE IF a[i] < b[i] THEN -1
    ELSE IF a[i] > b[i] THEN 1
    ELSE BCmpTop(a, b, i - 1)

BCmp(a, b) ==
    IF Len(a) < Len(b) THEN -1
    ELSE IF Len(a) > Len(b) THEN 1
    ELSE BCmpTop(a, b, Len(a))

\* a * k for 0 <= k < Base
RECURSIVE BMulSmallC(_, _, _)
BMulSmallC(a, k, c) ==
    IF a = <<>> THEN (IF c = 0 THEN <<>> ELSE <<c>>)
    ELSE LET p == Head(a) * k + c
         IN  <<p % Base>> \o BMulSmallC(Tail(a), k, p \div Base)

BMulSmall(a, k) == IF k = 0 THEN <<>> ELSE BMulSmallC(a, k, 0)

\* a * Base
BShlLimb(a) == IF a = <<>> THEN <<>> ELSE <<0>> \o a

RECURSIVE BMul(_, _)
BMul(a, b) ==
    IF a = <<>> \/ b = <<>> THEN <<>>
    ELSE BAdd(BMulSmall(a, Head(b)), BShlLimb(BMul(a, Tail(b))))

\* floor(a / k) for 0 < k < Base, from the top limb down
RECURSIVE BDivSmallR(_, _, _, _)
BDivSmallR(a, k, i, r) ==
    IF i = 0 THEN <<>>
    ELSE LET n == r * Base + a[i]
         IN  BDivSmallR(a, k, i - 1, n % k) \o <<n \div k>>

BDivSmall(a, k) == BNorm(BDivSmallR(a, k, Len(a), 0))

Zeros(n) == [i \in 1..n |-> 0]

\* a * 2^n
BShl(a, n) ==
    IF a = <<>> THEN <<>>
    ELSE Zeros(n \div LimbBits) \o BMulSmall(a, 2^(n % LimbBits))

\* floor(a / 2^n)
BShr(a, n) ==
    IF n \div LimbBits >= Len(a) THEN <<>>
    ELSE BDivSmall(SubSeq(a, n \div LimbBits + 1, Len(a)), 2^(n % LimbBits))

\* bit n of a (bit 0 is the lowest)
BBit(a, n) ==
    IF n \div LimbBits >= Len(a) THEN 0
    ELSE (a[n \div LimbBits + 1] \div 2^(n % LimbBits)) % 2

\* a mod 2^n # 0
BLowBits(a, n) ==
    \/ \E i \in 1..Min(n \div LimbBits, Len(a)) : a[i] # 0
    \/ /\ n \div LimbBits < Len(a)
       /\ a[n \div LimbBits + 1] % 2^(n % LimbBits) # 0

RECURSIVE SmallLen(_)
SmallLen(k) == IF k = 0 THEN 0 ELSE 1 + SmallLen(k \div 2)

\* the number of bits of a
BLen(a) == IF a = <<>> THEN 0 ELSE LimbBits * (Len(a) - 1) + SmallLen(a[Len(a)])

\* the largest d < 2^(k+1) + d0 with b * d <= r, found bit by bit from bit k
RECURSIVE BDigit(_, _, _, _)
BDigit(r, b, d, k) ==
    IF k < 0 THEN d
    ELSE IF BCmp(BMulSmall(b, d + 2^k), r) <= 0
         THEN BDigit(r, b, d + 2^k, k - 1)
         ELSE BDigit(r, b, d, k - 1)

\* one step of the long division: h is the result for the limbs above, limb
\* the next limb down
BDivStep3(q, r2, b, d) == [q |-> <<d>> \o q, r |-> BSub(r2, BMulSmall(b, d))]
BDivStep2(q, r2, b) == BDivStep3(q, r2, b, BDigit(r2, b, 0, LimbBits - 1))
BDivStep(h, limb, b) == BDivStep2(h.q, BNorm(<<limb>> \o h.r), b)

\* long division of the limbs i..Len(a) of a by b # 0, one quotient limb a step
RECURSIVE BDivModR(_, _, _)
BDivModR(a, b, i) ==
    IF i > Len(a) THEN [q |-> <<>>, r |-> <<>>]
    ELSE BDivStep(BDivModR(a, b, i + 1), a[i], b)

\* [q |-> floor(a / b), r |-> a mod b] for b # 0
BNormQ(h) == [q |-> BNorm(h.q), r |-> h.r]
BDivMod(a, b) == BNormQ(BDivModR(a, b, 1))

(***************************************************************************)
(* Python floats (binary64).  A value is a record: k is "fin", "inf" or    *)
(* "nan"; s is the sign bit; a finite value is (-1)^s * m * 2^e.  The form  *)
(* is canonical, so that equal records are equal bit patterns: a normal    *)
(* number has a significand of exactly Precision bits, a subnormal one has *)
(* e = EMin, zero has m = <<>> and e = 0.                                   *)
(***************************************************************************)
Precision == 53
EMin == -1074
ETop == 1024

NaN == [k |-> "nan", s |-> 0, m |-> <<>>, e |-> 0]
Inf(s) == [k |-> "inf", s |-> s, m |-> <<>>, e |-> 0]
Zero(s) == [k |-> "fin", s |-> s, m |-> <<>>, e |-> 0]
Fin(s, m, e) == [k |-> "fin", s |-> s, m |-> m, e |-> e]

IsNaN(x) == x.k = "nan"
IsInf(x) == x.k = "inf"
IsZero(x) == x.k = "fin" /\ x.m = <<>>
IsFinite(x) == x.k = "fin"

\* the double (-1)^s * q * 2^e of a significand that fits; 2^ETop or more is inf
Pack(s, q, e) ==
    IF q = <<>> THEN Zero(s)
    ELSE IF e + BLen(q) > ETop THEN Inf(s)
    ELSE Fin(s, q, e)

\* a significand that the rounding carried to Precision + 1 bits is halved
Renorm(s, q, e) ==
    IF BLen(q) > Precision THEN Pack(s, BShr(q, 1), e + 1) ELSE Pack(s, q, e)

\* whether dropping the low `drop` bits of m rounds the rest up.  mode is
\* "nearest" (ties to even, what +, * and / do), or "down" / "up" (towards /
\* away from zero)
RoundsUp(m, drop, mode) ==
    CASE mode = "nearest" ->
            /\ BBit(m, drop - 1) = 1
            /\ BLowBits(m, drop - 1) \/ BBit(m, drop) = 1
      [] mode = "down" -> FALSE
      [] mode = "up" -> BLowBits(m, drop)

RoundDrop(s, m, e, mode, drop) ==
    IF drop <= 0 THEN Pack(s, BShl(m, -drop), e + drop)
    ELSE Renorm(s,
                IF RoundsUp(m, drop, mode)
                THEN BAdd(BShr(m, drop), <<1>>) ELSE BShr(m, drop),
                e + drop)

\* the exact value (-1)^s * m * 2^e rounded to a double: the bits below the
\* Precision top ones, and those below 2^EMin, are dropped
RoundPack(s, m, e, mode) ==
    IF m = <<>> THEN Zero(s)
    ELSE RoundDrop(s, m, e, mode, Max(BLen(m) - Precision, EMin - e))

\* the position of the top bit of a finite non-zero value
Top(x) == x.e + BLen(x.m)

\* -1, 0, 1 as |x| < |y|, |x| = |y|, |x| > |y|; neither is nan
MagCmp(x, y) ==
    IF IsInf(x) THEN (IF IsInf(y) THEN 0 ELSE 1)
    ELSE IF IsInf(y) THEN -1
    ELSE IF IsZero(x) THEN (IF IsZero(y) THEN 0 ELSE -1)
    ELSE IF IsZero(y) THEN 1
    ELSE IF Top(x) < Top(y) THEN -1
    ELSE IF Top(x) > Top(y) THEN 1
    ELSE BCmp(x.m, y.m)

\* -1, 0, 1 for a negative, zero (of either sign), positive value
Sgn(x) == IF IsZero(x) THEN 0 ELSE IF x.s = 1 THEN -1 ELSE 1

\* -1, 0, 1 as x < y, x == y, x > y; neither is nan
FCmp(x, y) ==
    IF Sgn(x) # Sgn(y) THEN (IF Sgn(x) < Sgn(y) THEN -1 ELSE 1)
    ELSE IF Sgn(x) = 0 THEN 0
    ELSE Sgn(x) * MagCmp(x, y)

\* Python's <, >, <=, >=, ==: every comparison with nan is False
FLt(x, y) == ~IsNaN(x) /\ ~IsNaN(y) /\ FCmp(x, y) < 0
FGt(x, y) == ~IsNaN(x) /\ ~IsNaN(y) /\ FCmp(x, y) > 0
FLe(x, y) == ~IsNaN(x) /\ ~IsNaN(y) /\ FCmp(x, y) <= 0
FGe(x, y) == ~IsNaN(x) /\ ~IsNaN(y) /\ FCmp(x, y) >= 0
FEq(x, y) == ~IsNaN(x) /\ ~IsNaN(y) /\ FCmp(x, y) = 0

Xor(a, b) == (a + b) % 2

\* x * y
FMul(x, y) ==
    IF IsNaN(x) \/ IsNaN(y) THEN NaN
    ELSE IF (IsInf(x) /\ IsZero(y)) \/ (IsZero(x) /\ IsInf(y)) THEN NaN
    ELSE IF IsInf(x) \/ IsInf(y) THEN Inf(Xor(x.s, y.s))
    ELSE RoundPack(Xor(x.s, y.s), BMul(x.m, y.m), x.e + y.e, "nearest")

\* the quotient d.q with a low bit that says whether a remainder is left, rounded
DivRound(s, d, e) ==
    RoundPack(s, BAdd(BShl(d.q, 1), IF d.r = <<>> THEN <<>> ELSE <<1>>), e, "nearest")

\* x / y for finite non-zero x and y, from a quotient of Precision + 2 bits
DivFinite(x, y, sh) ==
    DivRound(Xor(x.s, y.s), BDivMod(BShl(x.m, sh), y.m), x.e - y.e - sh - 1)

\* x / y for y # 0 (Python raises ZeroDivisionError before dividing by zero)
FDiv(x, y) ==
    IF IsNaN(x) \/ IsNaN(y) THEN NaN
    ELSE IF IsInf(x) THEN (IF IsInf(y) THEN NaN ELSE Inf(Xor(x.s, y.s)))
    ELSE IF IsInf(y) \/ IsZero(x) THEN Zero(Xor(x.s, y.s))
    ELSE DivFinite(x, y, Precision + 2 + BLen(y.m) - BLen(x.m))

\* a finite non-zero y far below the top bit of its partner only decides the
\* rounding: it is moved up to a bit that does the same
Sticky(y, top) ==
    IF ~IsZero(y) /\ top - Top(y) > 2 * Precision
    THEN Fin(y.s, <<1>>, top - 2 * Precision - 2)
    ELSE y

\* sa * ma + sb * mb, in units of 2^e0, rounded
AddMant(sa, ma, sb, mb, e0, c) ==
    IF sa = sb THEN RoundPack(sa, BAdd(ma, mb), e0, "nearest")
    ELSE IF c = 0 THEN Zero(0)
    ELSE IF c > 0 THEN RoundPack(sa, BSub(ma, mb), e0, "nearest")
    ELSE RoundPack(sb, BSub(mb, ma), e0, "nearest")

AddAligned(sa, ma, sb, mb, e0) == AddMant(sa, ma, sb, mb, e0, BCmp(ma, mb))

AddFinite(a, b, e0) ==
    AddAligned(a.s, BShl(a.m, a.e - e0), b.s, BShl(b.m, b.e - e0), e0)

AddSticky(a, b) == AddFinite(a, b, Min(a.e, b.e))

\* x + y
FAdd(x, y) ==
    IF IsNaN(x) \/ IsNaN(y) THEN NaN
    ELSE IF IsInf(x) THEN (IF IsInf(y) /\ x.s # y.s THEN NaN ELSE x)
    ELSE IF IsInf(y) THEN y
    ELSE IF IsZero(x) /\ IsZero(y) THEN Zero(x.s * y.s)
    ELSE IF IsZero(x) THEN y
    ELSE IF IsZero(y) THEN x
    ELSE AddSticky(Sticky(x, Top(y)), Sticky(y, Top(x)))

\* the double of a small natural number n < Base
SmallInt(n) == RoundPack(0, IF n = 0 THEN <<>> ELSE <<n>>, 0, "nearest")

\* m^n for a natural number n >= 1
RECURSIVE BPow(_, _)
BPow(m, n) == IF n = 1 THEN m ELSE BMul(m, BPow(m, n - 1))

\* the roundings C's pow may give: the library promises a result within one
\* unit in the last place, not the nearest double
PowModes == {"nearest", "down", "up"}

\* what float_pow makes of the result ix of pow(): out of range is an error
PowRange(ix) ==
    IF IsInf(ix) THEN [exc |-> "OverflowError", val |-> ix]
    ELSE [exc |-> "", val |-> ix]

\* iv ** n for a whole exponent n >= 1: the sign is that of an odd power
PowInt(iv, n, s, mode) ==
    IF IsNaN(iv) THEN [exc |-> "", val |-> NaN]
    ELSE IF IsInf(iv) THEN [exc |-> "", val |-> Inf(s)]
    ELSE IF IsZero(iv) THEN [exc |-> "", val |-> Zero(s)]
    ELSE PowRange(RoundPack(s, BPow(iv.m, n), iv.e * n, mode))

PowSign(iv, n, mode) == PowInt(iv, n, IF n % 2 = 1 THEN iv.s ELSE 0, mode)

\* iv ** iw (float_pow) for an exponent that is a whole number 1.0 ... 4.0:
\* [exc |-> "" or the exception raised, val |-> the result].  pow() rounds as
\* the build's library does (mode); a finite base whose power is out of range
\* raises OverflowError, a result that underflows is returned.
FPow(iv, iw, mode) == PowSign(iv, CHOOSE i \in 1..4 : iw = SmallInt(i), mode)

\* max(a, b) and min(a, b) of the builtins: the first argument is kept unless
\* the second compares strictly greater (smaller)
PyMax(a, b) == IF FGt(b, a) THEN b ELSE a
PyMin(a, b) == IF FLt(b, a) THEN b ELSE a

(***************************************************************************)
(* The literals and class attributes of the source, as doubles.            *)
(***************************************************************************)
Lit0 == Zero(0)                                        \* 0.0
Lit0_1 == Fin(0, <<6554, 13107, 26214, 204>>, -56)     \* 0.1
Lit1 == Fin(0, <<0, 0, 0, 128>>, -52)                  \* 1.0
Lit2 == Fin(0, <<0, 0, 0, 128>>, -51)                  \* 2 of self.C ** 2

C == Fin(0, <<0, 5120, 31201, 142>>, -24)              \* 2.99792458e8
RHO_ATM == Fin(0, <<6554, 13107, 26214, 156>>, -52)    \* 1.225
K_ENV == Fin(0, <<0, 0, 0, 128>>, -52)                 \* 1.0
\* the exponent 3.0 in the place of 2.0
BETA_cubic == Fin(0, <<0, 0, 0, 192>>, -51)
BETA == Fin(0, <<0, 0, 0, 128>>, -51)                  \* 2.0
A_EFF == Fin(0, <<0, 0, 0, 128>>, -52)                 \* 1.0

DefaultIntensity == Fin(0, <<0, 0, 10240, 195>>, -37)          \* 50000.0
DefaultVolume == Fin(0, <<0, 0, 0, 160>>, -49)                 \* 10.0
DefaultAlpha == Fin(0, <<26214, 19660, 6553, 243>>, -53)       \* 0.95

(***************************************************************************)
(* Console input.  float(text) is the correctly rounded double of a        *)
(* numeric text and ValueError for any other text; it is given as the      *)
(* table of the texts the model types in.                                  *)
(***************************************************************************)
NumericTexts ==
    {"-1", "-0.0", "0", "1e-300", "2e-300", "50000", "100000", "150000",
     "1e200", "1.7e308", "1e999", "nan", "-3", "0.05", "10", "1e300", "-0.2",
     "0.5", "0.95", "1.5"}

float(text) ==
    CASE text = "-1"      -> Fin(1, <<0, 0, 0, 128>>, -52)
      [] text = "-0.0"    -> Zero(1)
      [] text = "0"       -> Zero(0)
      [] text = "1e-300"  -> Fin(0, <<29529, 1521, 14463, 171>>, -1049)
      [] text = "2e-300"  -> Fin(0, <<29529, 1521, 14463, 171>>, -1048)
      [] text = "50000"   -> Fin(0, <<0, 0, 10240, 195>>, -37)
      [] text = "100000"  -> Fin(0, <<0, 0, 10240, 195>>, -36)
      [] text = "150000"  -> Fin(0, <<0, 0, 15872, 146>>, -35)
      [] text = "1e200"   -> Fin(0, <<25178, 12206, 7267, 167>>, 612)
      [] text = "1.7e308" -> Fin(0, <<15222, 24814, 2884, 242>>, 971)
      [] text = "1e999"   -> Inf(0)
      [] text = "nan"     -> NaN
      [] text = "-3"      -> Fin(1, <<0, 0, 0, 192>>, -51)
      [] text = "0.05"    -> Fin(0, <<6554, 13107, 26214, 204>>, -57)
      [] text = "10"      -> Fin(0, <<0, 0, 0, 160>>, -49)
      [] text = "1e300"   -> Fin(0, <<30108, 4096, 4338, 191>>, 944)
      [] text = "-0.2"    -> Fin(1, <<6554, 13107, 26214, 204>>, -55)
      [] text = "0.5"     -> Fin(0, <<0, 0, 0, 128>>, -53)
      [] text = "0.95"    -> Fin(0, <<26214, 19660, 6553, 243>>, -53)
      [] text = "1.5"     -> Fin(0, <<0, 0, 0, 192>>, -52)

RaisesValueError(text) == text \notin NumericTexts

\* what the model types at each prompt
PowerTexts ==
    {"-1", "-0.0", "0", "1e-300", "2e-300", "50000", "100000", "150000",
     "1e200", "1.7e308", "1e999", "nan"}
VolumeTexts == {"-3", "0", "0.05", "10", "1e300", "1e999", "nan"}
AlphaTexts == {"-0.2", "0.5", "0.95", "1.5", "nan"}
BadTexts == {"abc", ""}
ChoiceTexts == {"q", "R", "1", "2", "3", "x"}

\* str.lower() on the choices typed
lower(text) == CASE text = "Q" -> "q" [] text = "R" -> "r" [] OTHER -> text

(***************************************************************************)
(* LightForceSimulator                                                     *)
(***************************************************************************)
VARIABLES
    total_intensity_w,      \* self.total_intensity_w
    container_volume_m3,    \* self.container_volume_m3
    reflectivity_alpha,     \* self.reflectivity_alpha
    libm_pow,               \* how this build's pow() rounds
    args,                   \* the arguments of the set_parameters call of the
                            \* latest step, <<>> if it made none
    returned,               \* what the calculator call of the latest step gave
    calls,                  \* the calculator calls made directly since the
                            \* parameters were last set, in order
    choice,                 \* run_simulation: choice, of the latest turn
    typed,                  \* <<text>> typed at the value prompt of the latest
                            \* turn, <<>> if it had none
    screen,                 \* what the latest turn printed after the menu
    pc                      \* "loop", "exited", or "api" for direct calls

params == <<total_intensity_w, container_volume_m3, reflectivity_alpha>>
vars == <<total_intensity_w, container_volume_m3, reflectivity_alpha,
          libm_pow, args, returned, calls, choice, typed, screen, pc>>

self == [total_intensity_w   |-> total_intensity_w,
         container_volume_m3 |-> container_volume_m3,
         reflectivity_alpha  |-> reflectivity_alpha]

\* no float: the place of a value a call did not produce
NoneF == [k |-> "none", s |-> 0, m |-> <<>>, e |-> 0]

Outcome(kind, exc, thrust, force, rho) ==
    [kind |-> kind, exc |-> exc, f_thrust |-> thrust,
     force_rad_base |-> force, rho_rel |-> rho]
NoCall == Outcome("none", "", NoneF, NoneF, NoneF)
Raised(exc) == Outcome("raise", exc, NoneF, NoneF, NoneF)

\* __init__
init_self ==
    [total_intensity_w   |-> DefaultIntensity,
     container_volume_m3 |-> DefaultVolume,
     reflectivity_alpha  |-> DefaultAlpha]

\* set_parameters with the floor of the volume at 0.0 instead of 0.1
set_parameters_no_volume_floor(intensity, volume, alpha) ==
    [total_intensity_w   |-> PyMax(Lit0, intensity),
     container_volume_m3 |-> PyMax(Lit0, volume),
     reflectivity_alpha  |-> PyMin(Lit1, PyMax(Lit0, alpha))]

\* set_parameters without the min(1.0, ...) around the reflectivity
set_parameters_no_upper_clamp(intensity, volume, alpha) ==
    [total_intensity_w   |-> PyMax(Lit0, intensity),
     container_volume_m3 |-> PyMax(Lit0_1, volume),
     reflectivity_alpha  |-> PyMax(Lit0, alpha)]

\* set_parameters: the three attributes after the call
set_parameters(intensity, volume, alpha) ==
    [total_intensity_w   |-> PyMax(Lit0, intensity),
     container_volume_m3 |-> PyMax(Lit0_1, volume),
     reflectivity_alpha  |-> PyMin(Lit1, PyMax(Lit0, alpha))]

\* self.C ** 2
c_squared(mode) == FPow(C, Lit2, mode)

\* rho_rel = self.total_intensity_w / (self.container_volume_m3 * (self.C ** 2))
\* with the divisor den already computed: [exc, val]
density_quotient(obj, den) ==
    IF IsZero(den) THEN [exc |-> "ZeroDivisionError", val |-> NoneF]
    ELSE [exc |-> "", val |-> FDiv(obj.total_intensity_w, den)]

\* the density with the volume left out of the divisor
density_with_no_volume(obj, c2) ==
    IF c2.exc # "" THEN [exc |-> c2.exc, val |-> NoneF]
    ELSE density_quotient(obj, c2.val)

density_with(obj, c2) ==
    IF c2.exc # "" THEN [exc |-> c2.exc, val |-> NoneF]
    ELSE density_quotient(obj, FMul(obj.container_volume_m3, c2.val))

\* calculate_relativistic_mass_density: [exc, val]
calculate_relativistic_mass_density(obj, mode) ==
    density_with(obj, c_squared(mode))

\* force_rad_base = (1.0 + self.reflectivity_alpha) * self.total_intensity_w / self.C
force_rad_base(obj) ==
    FDiv(FMul(FAdd(Lit1, obj.reflectivity_alpha), obj.total_intensity_w), C)

\* density_ratio, with its guard on RHO_ATM
density_ratio(rho_rel) ==
    IF FEq(RHO_ATM, Lit0) THEN Lit1 ELSE FDiv(rho_rel, RHO_ATM)

\* density_amplification = self.K_ENV * (density_ratio ** self.BETA), the
\* power already computed
density_amplification(power) == FMul(K_ENV, power)

\* f_thrust = force_rad_base * density_amplification
f_thrust(force, amplification) == FMul(force, amplification)

\* the return statement, or the exception that ended the call before it
thrust_return(force, rho_rel, power) ==
    IF IsZero(C) THEN Raised("ZeroDivisionError")
    ELSE IF rho_rel.exc # "" THEN Raised(rho_rel.exc)
    ELSE IF power.exc # "" THEN Raised(power.exc)
    ELSE Outcome("thrust", "",
                 f_thrust(force, density_amplification(power.val)),
                 force, rho_rel.val)

thrust_with(force, rho_rel, mode) ==
    thrust_return(force, rho_rel, FPow(density_ratio(rho_rel.val), BETA, mode))

\* calculate_light_force_thrust: the tuple returned, or the exception raised
calculate_light_force_thrust(obj, mode) ==
    thrust_with(force_rad_base(obj), calculate_relativistic_mass_density(obj, mode), mode)

Store(obj) ==
    /\ total_intensity_w' = obj.total_intensity_w
    /\ container_volume_m3' = obj.container_volume_m3
    /\ reflectivity_alpha' = obj.reflectivity_alpha

(***************************************************************************)
(* run_simulation: one action for each way a turn of the loop can go.  The *)
(* locals of the loop are kept for the latest turn only: no turn reads     *)
(* what an earlier turn left in them.                                      *)
(***************************************************************************)
Init ==
    /\ total_intensity_w = init_self.total_intensity_w
    /\ container_volume_m3 = init_self.container_volume_m3
    /\ reflectivity_alpha = init_self.reflectivity_alpha
    /\ libm_pow \in PowModes
    /\ args = <<>>
    /\ returned = NoCall
    /\ calls = <<>>
    /\ choice = ""
    /\ typed = <<>>
    /\ screen = "banner"
    /\ pc = "loop"

\* choice == 'q': break
ChooseQuit(text) ==
    /\ pc = "loop"
    /\ lower(text) = "q"
    /\ choice' = lower(text)
    /\ pc' = "exited"
    /\ screen' = ""
    /\ returned' = NoCall
    /\ args' = <<>>
    /\ typed' = <<>>
    /\ UNCHANGED <<params, libm_pow, calls>>

\* choice == 'r': the results are printed; an exception of the call reaches
\* the outer handler, which prints it and leaves the loop
ChooseRun(text) ==
    /\ pc = "loop"
    /\ lower(text) = "r"
    /\ choice' = lower(text)
    /\ returned' = calculate_light_force_thrust(self, libm_pow)
    /\ IF returned'.kind = "raise"
       THEN screen' = "unexpected_error" /\ pc' = "exited"
       ELSE screen' = "results" /\ pc' = "loop"
    /\ args' = <<>>
    /\ typed' = <<>>
    /\ UNCHANGED <<params, libm_pow, calls>>

\* the new value passed one position further than the choice asks
change_parameter_shifted(ch, new_val) ==
    CASE ch = "1" -> <<total_intensity_w, new_val, reflectivity_alpha>>
      [] ch = "2" -> <<total_intensity_w, container_volume_m3, new_val>>
      [] ch = "3" -> <<new_val, container_volume_m3, reflectivity_alpha>>

\* the arguments of the call of set_parameters each choice makes
change_parameter(ch, new_val) ==
    CASE ch = "1" -> <<new_val, container_volume_m3, reflectivity_alpha>>
      [] ch = "2" -> <<total_intensity_w, new_val, reflectivity_alpha>>
      [] ch = "3" -> <<total_intensity_w, container_volume_m3, new_val>>

\* choice in ('1', '2', '3') and a text float() accepts
ChooseParameter(text, value) ==
    /\ pc = "loop"
    /\ lower(text) \in {"1", "2", "3"}
    /\ ~RaisesValueError(value)
    /\ choice' = lower(text)
    /\ typed' = <<value>>
    /\ args' = change_parameter(lower(text), float(value))
    /\ Store(set_parameters(args'[1], args'[2], args'[3]))
    /\ screen' = ""
    /\ returned' = NoCall
    /\ UNCHANGED <<libm_pow, calls, pc>>

\* the ValueError of float() with no inner handler: the outer one ends the loop
ParameterValueError_uncaught(text, value) ==
    /\ pc = "loop"
    /\ lower(text) \in {"1", "2", "3"}
    /\ RaisesValueError(value)
    /\ choice' = lower(text)
    /\ typed' = <<value>>
    /\ screen' = "unexpected_error"
    /\ pc' = "exited"
    /\ returned' = NoCall
    /\ args' = <<>>
    /\ UNCHANGED <<params, libm_pow, calls>>

\* choice in ('1', '2', '3') and float() raises ValueError: the inner handler
ParameterValueError(text, value) ==
    /\ pc = "loop"
    /\ lower(text) \in {"1", "2", "3"}
    /\ RaisesValueError(value)
    /\ choice' = lower(text)
    /\ typed' = <<value>>
    /\ screen' = "invalid_input"
    /\ returned' = NoCall
    /\ args' = <<>>
    /\ UNCHANGED <<params, libm_pow, calls, pc>>

\* any other choice
InvalidChoice(text) ==
    /\ pc = "loop"
    /\ lower(text) \notin {"q", "r", "1", "2", "3"}
    /\ choice' = lower(text)
    /\ screen' = "invalid_choice"
    /\ returned' = NoCall
    /\ args' = <<>>
    /\ typed' = <<>>
    /\ UNCHANGED <<params, libm_pow, calls, pc>>

\* input() raises EOFError at the choice prompt: the outer handler
EndOfInput ==
    /\ pc = "loop"
    /\ screen' = "unexpected_error"
    /\ pc' = "exited"
    /\ choice' = ""
    /\ returned' = NoCall
    /\ args' = <<>>
    /\ typed' = <<>>
    /\ UNCHANGED <<params, libm_pow, calls>>

PromptTexts(ch) ==
    CASE ch = "1" -> PowerTexts
      [] ch = "2" -> VolumeTexts
      [] ch = "3" -> AlphaTexts
      [] OTHER -> {}

Next ==
    \/ \E text \in ChoiceTexts : ChooseQuit(text)
    \/ \E text \in ChoiceTexts : ChooseRun(text)
    \/ \E text \in ChoiceTexts : \E value \in PromptTexts(lower(text)) :
          ChooseParameter(text, value)
    \/ \E text \in ChoiceTexts : \E value \in BadTexts :
          ParameterValueError(text, value)
    \/ \E text \in ChoiceTexts : InvalidChoice(text)
    \/ EndOfInput

Spec == Init /\ [][Next]_vars

(***************************************************************************)
(* The class used directly: the three operations called in any order with  *)
(* any arguments, on a freshly constructed simulator.                      *)
(***************************************************************************)
PowerArgs ==
    {float(t) : t \in {"-1", "0", "1e-300", "2e-300", "50000", "100000",
                       "150000", "1e200", "1.7e308", "1e999", "nan"}}
VolumeArgs == {float(t) : t \in {"-3", "0", "0.05", "10", "1e300", "nan"}}
AlphaArgs == {float(t) : t \in {"-0.2", "0.95", "1.5", "nan"}}

\* how many calculator calls in a row the direct use makes
MaxCalls == 2

InitApi ==
    /\ total_intensity_w = init_self.total_intensity_w
    /\ container_volume_m3 = init_self.container_volume_m3
    /\ reflectivity_alpha = init_self.reflectivity_alpha
    /\ libm_pow \in PowModes
    /\ args = <<>>
    /\ returned = NoCall
    /\ calls = <<>>
    /\ choice = ""
    /\ typed = <<>>
    /\ screen = ""
    /\ pc = "api"

CallSetParameters(intensity, volume, alpha) ==
    /\ pc = "api"
    /\ args' = <<intensity, volume, alpha>>
    /\ Store(set_parameters(intensity, volume, alpha))
    /\ returned' = NoCall
    /\ calls' = <<>>
    /\ UNCHANGED <<libm_pow, choice, typed, screen, pc>>

\* what a call of calculate_relativistic_mass_density gives its caller
density_return(r) ==
    IF r.exc # "" THEN Raised(r.exc) ELSE Outcome("density", "", NoneF, NoneF, r.val)

CallDensity ==
    /\ pc = "api"
    /\ Len(calls) < MaxCalls
    /\ returned' = density_return(calculate_relativistic_mass_density(self, libm_pow))
    /\ calls' = Append(calls, "density")
    /\ args' = <<>>
    /\ UNCHANGED <<params, libm_pow, choice, typed, screen, pc>>

\* the call scaling the stored power in place by 1.0 + reflectivity_alpha
CallThrust_in_place ==
    /\ pc = "api"
    /\ Len(calls) < MaxCalls
    /\ returned' = calculate_light_force_thrust(self, libm_pow)
    /\ calls' = Append(calls, "thrust")
    /\ args' = <<>>
    /\ total_intensity_w' = FMul(FAdd(Lit1, reflectivity_alpha), total_intensity_w)
    /\ UNCHANGED <<container_volume_m3, reflectivity_alpha, libm_pow, choice,
                   typed, screen, pc>>

CallThrust ==
    /\ pc = "api"
    /\ Len(calls) < MaxCalls
    /\ returned' = calculate_light_force_thrust(self, libm_pow)
    /\ calls' = Append(calls, "thrust")
    /\ args' = <<>>
    /\ UNCHANGED <<params, libm_pow, choice, typed, screen, pc>>

NextApi ==
    \/ \E i \in PowerArgs, v \in VolumeArgs, a \in AlphaArgs :
          CallSetParameters(i, v, a)
    \/ CallDensity
    \/ CallThrust

SpecApi == InitApi /\ [][NextApi]_vars

(***************************************************************************)
(* What the properties below are stated with.                              *)
(***************************************************************************)
\* |x - y| <= n * 2^(y.e), n units in the last place of y, for finite x, y > 0
DiffWithin(mx, my, lim) ==
    IF BCmp(mx, my) >= 0 THEN BCmp(BSub(mx, my), lim) <= 0
    ELSE BCmp(BSub(my, mx), lim) <= 0

WithinUlps(x, y, n) ==
    /\ IsFinite(x) /\ IsFinite(y) /\ ~IsZero(x) /\ ~IsZero(y)
    /\ x.s = 0 /\ y.s = 0
    /\ x.e - y.e \in -2..2
    /\ DiffWithin(BShl(x.m, x.e - Min(x.e, y.e)), BShl(y.m, y.e - Min(x.e, y.e)),
                  BShl(<<n>>, y.e - Min(x.e, y.e)))

\* equal but for the rounding of a handful of operations
Close(x, y) == WithinUlps(x, y, 32)

\* a finite number with a full significand: neither zero nor subnormal
IsNormal(x) == IsFinite(x) /\ BLen(x.m) = Precision

\* x clamped as the specification says: max(0, x), max(0.1, x), min(1, max(0, x))
IsClampedPower(x, p) ==
    /\ FGe(x, Lit0) => FEq(p, x)
    /\ FLt(x, Lit0) => p = Lit0
IsClampedVolume(x, v) ==
    /\ FGe(x, Lit0_1) => v = x
    /\ FLt(x, Lit0_1) => v = Lit0_1
IsClampedAlpha(x, a) ==
    /\ FGt(x, Lit1) => a = Lit1
    /\ FLt(x, Lit0) => a = Lit0
    /\ (FGe(x, Lit0) /\ FLe(x, Lit1)) => FEq(a, x)

\* the powers the direct calls can store
StoredPowers == {set_parameters(i, Lit0_1, Lit0).total_intensity_w : i \in PowerArgs}

\* what calculate_light_force_thrust returns with the power p2 stored and the
\* volume and the reflectivity as they are
ThrustAt(p2) ==
    calculate_light_force_thrust([self EXCEPT !.total_intensity_w = p2], libm_pow)

\* a returned tuple whose numbers, and the power term behind them, are normal
NormalTuple(o) ==
    /\ o.kind = "thrust"
    /\ IsNormal(o.f_thrust) /\ IsNormal(o.force_rad_base) /\ IsNormal(o.rho_rel)
    /\ IsNormal(FPow(density_ratio(o.rho_rel), BETA, libm_pow).val)

\* C1: in every reachable state of the direct use (the fresh simulator, and
\* after set_parameters calls with any arguments) the stored parameters satisfy
\* total_intensity_w >= 0, container_volume_m3 >= 0.1, 0 <= reflectivity_alpha <= 1.
C1_ParametersInRange ==
    /\ FGe(total_intensity_w, Lit0)
    /\ FGe(container_volume_m3, Lit0_1)
    /\ FGe(reflectivity_alpha, Lit0)
    /\ FLe(reflectivity_alpha, Lit1)

\* after set_parameters(-1, -3, 1.5): every argument out of range
C1_Witness ==
    /\ args = <<float("-1"), float("-3"), float("1.5")>>
    /\ C1_ParametersInRange

\* C2: set_parameters(power, volume, reflectivity) never rejects and leaves
\* exactly max(0, power), max(0.1, volume), min(1, max(0, reflectivity)) stored,
\* whatever was stored before: a power >= 0 is read back unchanged, a power < 0
\* as 0, volume 0 as 0.1, reflectivity 1.5 as 1.0 and -0.2 as 0.0.
C2_StoresClamped ==
    args # <<>> =>
        /\ returned.kind # "raise"
        /\ IsClampedPower(args[1], total_intensity_w)
        /\ IsClampedVolume(args[2], container_volume_m3)
        /\ IsClampedAlpha(args[3], reflectivity_alpha)
        /\ args[2] = float("0") => container_volume_m3 = Lit0_1
        /\ args[3] = float("1.5") => reflectivity_alpha = Lit1
        /\ args[3] = float("-0.2") => reflectivity_alpha = Lit0

\* after set_parameters(100000, 0, -0.2) on a simulator holding other values
C2_Witness ==
    /\ args = <<float("100000"), float("0"), float("-0.2")>>
    /\ total_intensity_w = float("100000")
    /\ container_volume_m3 = Lit0_1
    /\ reflectivity_alpha = Lit0

\* C3: calculate_light_force_thrust and calculate_relativistic_mass_density
\* never fail: in every reachable state a call returns its result, none raises.
C3_NeverFails == returned.kind # "raise"

\* the part of C3 about the divisors: volume * C^2, C and RHO_ATM are never zero
C3_DivisorsNonZero ==
    /\ ~IsZero(FMul(container_volume_m3, c_squared(libm_pow).val))
    /\ ~IsZero(C)
    /\ ~IsZero(RHO_ATM)

\* the second call returns a tuple strictly above the first in force_rad_base
\* and in f_thrust
StrictlyAbove(o2, o1) ==
    /\ o2.kind = "thrust"
    /\ FGt(o2.force_rad_base, o1.force_rad_base)
    /\ FGt(o2.f_thrust, o1.f_thrust)

\* C4: with the same volume and reflectivity stored, a strictly larger stored
\* power gives a strictly larger force_rad_base and a strictly larger f_thrust
\* from calculate_light_force_thrust.
C4_StrictlyIncreasing ==
    returned.kind = "thrust" =>
        \A p2 \in StoredPowers :
            FGt(p2, total_intensity_w) => StrictlyAbove(ThrustAt(p2), returned)

\* Scenario E and Scenario A
ScenarioE_args == <<float("50000"), float("0.05"), float("0.95")>>
ScenarioE_self ==
    [total_intensity_w   |-> float("50000"),
     container_volume_m3 |-> Lit0_1,
     reflectivity_alpha  |-> float("0.95")]
ScenarioA_rho == calculate_relativistic_mass_density(init_self, libm_pow).val

\* C5 as claimed: after set_parameters(50000, 0.05, 0.95) the stored volume is
\* 0.1, and the rho_rel then returned is double the rho_rel of the defaults.
C5_DoublesDensity ==
    /\ args = ScenarioE_args => container_volume_m3 = Lit0_1
    /\ (returned.kind = "density" /\ self = ScenarioE_self) =>
           Close(returned.rho_rel, FMul(SmallInt(2), ScenarioA_rho))

\* C5 amended: after set_parameters(50000, 0.05, 0.95) the stored volume is
\* 0.1, and the rho_rel then returned is 100 times the rho_rel of the defaults
\* (the volume went from 10.0 to 0.1), up to rounding.
C5_HundredfoldDensity ==
    /\ args = ScenarioE_args => container_volume_m3 = Lit0_1
    /\ (returned.kind = "density" /\ self = ScenarioE_self) =>
           Close(returned.rho_rel, FMul(SmallInt(100), ScenarioA_rho))

\* calculate_relativistic_mass_density has returned in Scenario E
C5_Witness ==
    /\ returned.kind = "density"
    /\ self = ScenarioE_self
    /\ calls = <<"density">>

\* the tuple for k times the stored power has factor times the f_thrust
ScalesBy(k, factor) ==
    (/\ FMul(SmallInt(k), total_intensity_w) \in StoredPowers
     /\ NormalTuple(returned)
     /\ NormalTuple(ThrustAt(FMul(SmallInt(k), total_intensity_w))))
    => Close(ThrustAt(FMul(SmallInt(k), total_intensity_w)).f_thrust,
             FMul(SmallInt(factor), returned.f_thrust))

\* C6 as claimed: with volume and reflectivity fixed, multiplying the stored
\* power by k multiplies f_thrust by k^2.
C6_Quadratic ==
    returned.kind = "thrust" => ScalesBy(2, 4) /\ ScalesBy(3, 9)

\* C6 amended: with volume and reflectivity fixed, multiplying the stored power
\* by k multiplies f_thrust by k^3, up to rounding, where the numbers stay in
\* the normal range: force_rad_base is linear in the power and the squared
\* density ratio quadratic.
C6_Cubic ==
    returned.kind = "thrust" => ScalesBy(2, 8) /\ ScalesBy(3, 27)

\* a normal tuple for the default power, which the model also doubles and triples
C6_Witness ==
    /\ returned.kind = "thrust"
    /\ total_intensity_w = DefaultIntensity
    /\ NormalTuple(returned)
    /\ NormalTuple(ThrustAt(float("100000")))
    /\ NormalTuple(ThrustAt(float("150000")))

\* C7: a call of calculate_light_force_thrust leaves the stored parameters as
\* they were, and a second call right after the first, with no set_parameters
\* call between them, has the outcome of the first: the identical tuple.
C7_Idempotent ==
    [][calls' = Append(calls, "thrust") =>
          /\ UNCHANGED params
          /\ (calls # <<>> /\ calls[Len(calls)] = "thrust") => returned' = returned]_vars

\* two calls of calculate_light_force_thrust in a row, each returning a tuple,
\* on parameters that are not the defaults
C7_Witness ==
    /\ calls = <<"thrust", "thrust">>
    /\ returned.kind = "thrust"
    /\ self # init_self

\* C8: the three numbers calculate_light_force_thrust returns are non-negative,
\* and all three are 0 when the stored power is 0 (for finite stored values).
C8_NonNegative ==
    (/\ returned.kind = "thrust"
     /\ IsFinite(total_intensity_w)
     /\ IsFinite(container_volume_m3)) =>
        /\ FGe(returned.f_thrust, Lit0)
        /\ FGe(returned.force_rad_base, Lit0)
        /\ FGe(returned.rho_rel, Lit0)
        /\ IsZero(total_intensity_w) =>
               /\ IsZero(returned.f_thrust)
               /\ IsZero(returned.force_rad_base)
               /\ IsZero(returned.rho_rel)

\* C9: in the loop, a text float() rejects at the prompt of choice 1, 2 or 3 is
\* reported as an input error, the loop goes on, and the stored parameters stay.
C9_BadInputKeepsSession ==
    [][(/\ pc = "loop"
        /\ choice' \in {"1", "2", "3"}
        /\ typed' # <<>>
        /\ RaisesValueError(typed'[1]))
       => (/\ screen' = "invalid_input"
           /\ pc' = "loop"
           /\ UNCHANGED params)]_vars

\* "abc" was typed for a parameter after the three parameters were changed
C9_Witness ==
    /\ choice \in {"1", "2", "3"}
    /\ typed = <<"abc">>
    /\ screen = "invalid_input"
    /\ total_intensity_w # init_self.total_intensity_w
    /\ container_volume_m3 # init_self.container_volume_m3
    /\ reflectivity_alpha # init_self.reflectivity_alpha

\* C10: in the loop, choice 1, 2 or 3 with a numeric text changes the chosen
\* parameter to the clamped value and leaves the two others as they were.
C10_SingleFieldUpdate ==
    [][(/\ pc = "loop"
        /\ typed' # <<>>
        /\ ~RaisesValueError(typed'[1]))
       => (/\ choice' = "1" =>
                 /\ IsClampedPower(float(typed'[1]), total_intensity_w')
                 /\ UNCHANGED <<container_volume_m3, reflectivity_alpha>>
           /\ choice' = "2" =>
                 /\ IsClampedVolume(float(typed'[1]), container_volume_m3')
                 /\ UNCHANGED <<total_intensity_w, reflectivity_alpha>>
           /\ choice' = "3" =>
                 /\ IsClampedAlpha(float(typed'[1]), reflectivity_alpha')
                 /\ UNCHANGED <<total_intensity_w, container_volume_m3>>)]_vars

\* the volume was changed to 0.05, stored as 0.1, with a power of 1e200 and a
\* reflectivity of 1.0 stored before and after
C10_Witness ==
    /\ choice = "2"
    /\ typed = <<"0.05">>
    /\ container_volume_m3 = Lit0_1
    /\ total_intensity_w = float("1e200")
    /\ reflectivity_alpha = Lit1

=============================================================================
